---- MODULE Spec2Model ----
(***************************************************************************)
(* A model of FartStemmer (src/fartstemmer.py): the vowel/consonant       *)
(* classifier, the measure function, the shape predicates, the irregular  *)
(* form table and the six suffix stages that stem_word runs in order.     *)
(*                                                                         *)
(* A word is a sequence of one-character strings.  Positions are 0-based, *)
(* as in the source; At(word, i) reads word[i] the way Python does.       *)
(***************************************************************************)
EXTENDS Integers, Sequences, FiniteSets, TLC

VARIABLES p, word, pc, trace

vars == <<p, word, pc, trace>>

(***************************************************************************)
(* Bounds of the model.                                                    *)
(***************************************************************************)
\* longest generated stem that the endings are attached to
MaxStemLen == 3

(***************************************************************************)
(* Python string primitives.                                               *)
(***************************************************************************)
\* the value a read outside the word stands for (Python raises IndexError)
IndexError == "IndexError"

\* word[i], negative i counting from the end
At(w, i) ==
    IF 0 <= i /\ i < Len(w) THEN w[i + 1]
    ELSE IF i < 0 /\ -i <= Len(w) THEN w[Len(w) + i + 1]
    ELSE IndexError

\* word[:-n] for n >= 1
DropLast(w, n) == SubSeq(w, 1, Len(w) - n)

\* word.endswith(suf)
EndsWith(w, suf) ==
    /\ Len(suf) <= Len(w)
    /\ SubSeq(w, Len(w) - Len(suf) + 1, Len(w)) = suf

(***************************************************************************)
(* __init__: the irregular forms and the vowels.                           *)
(***************************************************************************)
irregular_forms ==
    { << <<"s","k","y">>, { <<"s","k","y">>, <<"s","k","i","e","s">> } >>,
      << <<"d","i","e">>, { <<"d","y","i","n","g">> } >>,
      << <<"l","i","e">>, { <<"l","y","i","n","g">> } >>,
      << <<"t","i","e">>, { <<"t","y","i","n","g">> } >>,
      << <<"n","e","w","s">>, { <<"n","e","w","s">> } >>,
      << <<"i","n","n","i","n","g">>,
         { <<"i","n","n","i","n","g","s">>, <<"i","n","n","i","n","g">> } >>,
      << <<"o","u","t","i","n","g">>,
         { <<"o","u","t","i","n","g","s">>, <<"o","u","t","i","n","g">> } >>,
      << <<"c","a","n","n","i","n","g">>,
         { <<"c","a","n","n","i","n","g","s">>, <<"c","a","n","n","i","n","g">> } >>,
      << <<"h","o","w","e">>, { <<"h","o","w","e">> } >>,
      << <<"p","r","o","c","e","e","d">>, { <<"p","r","o","c","e","e","d">> } >>,
      << <<"e","x","c","e","e","d">>, { <<"e","x","c","e","e","d">> } >>,
      << <<"s","u","c","c","e","e","d">>, { <<"s","u","c","c","e","e","d">> } >> }

\* self.pool[val] = key, for every val listed under key
pool ==
    [val \in UNION { e[2] : e \in irregular_forms } |->
        (CHOOSE e \in irregular_forms : val \in e[2])[1]]

vowels == {"a", "e", "i", "o", "u"}

(***************************************************************************)
(* The classifier.                                                         *)
(***************************************************************************)
RECURSIVE _cons(_, _)
\* the classifier with a leading y taken for a vowel
_cons_leading_y_vowel(w, i) ==
    IF At(w, i) \in vowels THEN FALSE
    ELSE IF At(w, i) = "y" THEN
        IF i = 0 THEN FALSE ELSE ~_cons(w, i - 1)
    ELSE TRUE

_cons(w, i) ==
    IF At(w, i) \in vowels THEN FALSE
    ELSE IF At(w, i) = "y" THEN
        IF i = 0 THEN TRUE ELSE ~_cons(w, i - 1)
    ELSE TRUE

(***************************************************************************)
(* The measure.  m_loop is the scan of _m: phase 1 is the first loop       *)
(* (leading consonants), phase 2 the loop that skips vowels, phase 3 the   *)
(* loop that skips consonants; leaving a loop steps i past the character   *)
(* that ended it.                                                          *)
(***************************************************************************)
RECURSIVE m_loop(_, _, _, _, _)
m_loop(w, j, i, n, phase) ==
    IF i > j THEN n
    ELSE IF phase = 1 THEN
        IF ~_cons(w, i) THEN m_loop(w, j, i + 1, n, 2)
        ELSE m_loop(w, j, i + 1, n, 1)
    ELSE IF phase = 2 THEN
        IF _cons(w, i) THEN m_loop(w, j, i + 1, n + 1, 3)
        ELSE m_loop(w, j, i + 1, n, 2)
    ELSE
        IF ~_cons(w, i) THEN m_loop(w, j, i + 1, n, 2)
        ELSE m_loop(w, j, i + 1, n, 3)

\* the measure with j taken as the first index not to scan
_m_exclusive_j(w, j) == m_loop(w, j - 1, 0, 0, 1)

_m(w, j) == m_loop(w, j, 0, 0, 1)

(***************************************************************************)
(* The shape predicates.                                                   *)
(***************************************************************************)
\* a stem is always taken to hold a vowel
_vowelinstem_always(stem) == TRUE

_vowelinstem(stem) == \E i \in 0 .. (Len(stem) - 1) : ~_cons(stem, i)

_doublec(w) ==
    IF Len(w) < 2 THEN FALSE
    ELSE IF At(w, -1) # At(w, -2) THEN FALSE
    ELSE _cons(w, Len(w) - 1)

_cvc(w, i) ==
    IF i = 0 THEN FALSE
    ELSE IF i = 1 THEN ~_cons(w, 0) /\ _cons(w, 1)
    ELSE IF ~_cons(w, i) \/ _cons(w, i - 1) \/ ~_cons(w, i - 2) THEN FALSE
    ELSE IF At(w, i) = "w" \/ At(w, i) = "x" \/ At(w, i) = "y" THEN FALSE
    ELSE TRUE

(***************************************************************************)
(* Stage 1ab: plurals, then -ed and -ing.                                  *)
(***************************************************************************)
\* the plural rules without the four-letter case of -ies
step1ab_plural_no_len4(w) ==
    IF At(w, -1) = "s" THEN
        IF EndsWith(w, <<"s","s","e","s">>) THEN DropLast(w, 2)
        ELSE IF EndsWith(w, <<"i","e","s">>) THEN DropLast(w, 2)
        ELSE IF At(w, -2) # "s" THEN DropLast(w, 1)
        ELSE w
    ELSE w

\* the plural rules
step1ab_plural(w) ==
    IF At(w, -1) = "s" THEN
        IF EndsWith(w, <<"s","s","e","s">>) THEN DropLast(w, 2)
        ELSE IF EndsWith(w, <<"i","e","s">>) THEN
            IF Len(w) = 4 THEN DropLast(w, 1) ELSE DropLast(w, 2)
        ELSE IF At(w, -2) # "s" THEN DropLast(w, 1)
        ELSE w
    ELSE w

\* the -ied, -eed, -ed and -ing rules, with the ed_or_ing_trimmed flag
step1ab_ed_ing(w) ==
    IF EndsWith(w, <<"i","e","d">>) THEN
        IF Len(w) = 4 THEN [word |-> DropLast(w, 1), ed_or_ing_trimmed |-> FALSE]
        ELSE [word |-> DropLast(w, 2), ed_or_ing_trimmed |-> FALSE]
    ELSE IF EndsWith(w, <<"e","e","d">>) THEN
        IF _m(w, Len(w) - 4) > 0
        THEN [word |-> DropLast(w, 1), ed_or_ing_trimmed |-> FALSE]
        ELSE [word |-> w, ed_or_ing_trimmed |-> FALSE]
    ELSE IF EndsWith(w, <<"e","d">>) /\ _vowelinstem(DropLast(w, 2)) THEN
        [word |-> DropLast(w, 2), ed_or_ing_trimmed |-> TRUE]
    ELSE IF EndsWith(w, <<"i","n","g">>) /\ _vowelinstem(DropLast(w, 3)) THEN
        [word |-> DropLast(w, 3), ed_or_ing_trimmed |-> TRUE]
    ELSE [word |-> w, ed_or_ing_trimmed |-> FALSE]

\* what follows a trimmed -ed or -ing
step1ab_trimmed(w) ==
    IF EndsWith(w, <<"a","t">>) \/ EndsWith(w, <<"b","l">>) \/ EndsWith(w, <<"i","z">>) THEN Append(w, "e")
    ELSE IF _doublec(w) THEN
        IF At(w, -1) \notin {"l", "s", "z"} THEN DropLast(w, 1) ELSE w
    ELSE IF _m(w, Len(w) - 1) = 1 /\ _cvc(w, Len(w) - 1) THEN Append(w, "e")
    ELSE w

_step1ab(w) ==
    LET r == step1ab_ed_ing(step1ab_plural(w))
    IN  IF r.ed_or_ing_trimmed THEN step1ab_trimmed(r.word) ELSE r.word

(***************************************************************************)
(* Stage 1c: terminal y to i.                                              *)
(***************************************************************************)
_step1c(w) ==
    IF At(w, -1) = "y" /\ Len(w) > 2 /\ _cons(w, Len(w) - 2)
    THEN Append(DropLast(w, 1), "i")
    ELSE w

(***************************************************************************)
(* Stage 2: double suffixes to single ones.  One definition per branch of  *)
(* the dispatch on ch = word[-2].                                          *)
(***************************************************************************)
RECURSIVE _step2(_)
\* ch == 'a'
step2_a(w) ==
    IF EndsWith(w, <<"a","t","i","o","n","a","l">>) THEN
        IF _m(w, Len(w) - 8) > 0 THEN DropLast(w, 7) \o <<"a","t","e">> ELSE w
    ELSE IF EndsWith(w, <<"t","i","o","n","a","l">>) THEN
        IF _m(w, Len(w) - 7) > 0 THEN DropLast(w, 2) ELSE w
    ELSE w
\* the 'c' branch with the replacement appended to the whole word
step2_c_unsliced(w) ==
    IF EndsWith(w, <<"e","n","c","i">>) THEN
        IF _m(w, Len(w) - 5) > 0 THEN w \o <<"e","n","c","e">> ELSE w
    ELSE IF EndsWith(w, <<"a","n","c","i">>) THEN
        IF _m(w, Len(w) - 5) > 0 THEN w \o <<"a","n","c","e">> ELSE w
    ELSE w

\* ch == 'c'
step2_c(w) ==
    IF EndsWith(w, <<"e","n","c","i">>) THEN
        IF _m(w, Len(w) - 5) > 0 THEN DropLast(w, 4) \o <<"e","n","c","e">> ELSE w
    ELSE IF EndsWith(w, <<"a","n","c","i">>) THEN
        IF _m(w, Len(w) - 5) > 0 THEN DropLast(w, 4) \o <<"a","n","c","e">> ELSE w
    ELSE w
\* ch == 'e'
step2_e(w) ==
    IF EndsWith(w, <<"i","z","e","r">>) THEN
        IF _m(w, Len(w) - 5) > 0 THEN DropLast(w, 1) ELSE w
    ELSE w
\* ch == 'l'; the -alli rule runs Stage 2 again on what it leaves
step2_l(w) ==
    IF EndsWith(w, <<"b","l","i">>) THEN
        IF _m(w, Len(w) - 4) > 0 THEN DropLast(w, 3) \o <<"b","l","e">> ELSE w
    ELSE IF EndsWith(w, <<"a","l","l","i">>) THEN
        IF _m(w, Len(w) - 5) > 0 THEN _step2(DropLast(w, 2)) ELSE w
    ELSE IF EndsWith(w, <<"f","u","l","l","i">>) THEN
        IF _m(w, Len(w) - 6) # 0 THEN DropLast(w, 2) ELSE w
    ELSE IF EndsWith(w, <<"e","n","t","l","i">>) THEN
        IF _m(w, Len(w) - 6) # 0 THEN DropLast(w, 2) ELSE w
    ELSE IF EndsWith(w, <<"e","l","i">>) THEN
        IF _m(w, Len(w) - 4) # 0 THEN DropLast(w, 2) ELSE w
    ELSE IF EndsWith(w, <<"o","u","s","l","i">>) THEN
        IF _m(w, Len(w) - 6) # 0 THEN DropLast(w, 2) ELSE w
    ELSE w
\* ch == 'o'
step2_o(w) ==
    IF EndsWith(w, <<"i","z","a","t","i","o","n">>) THEN
        IF _m(w, Len(w) - 8) # 0 THEN DropLast(w, 7) \o <<"i","z","e">> ELSE w
    ELSE IF EndsWith(w, <<"a","t","i","o","n">>) THEN
        IF _m(w, Len(w) - 6) # 0 THEN DropLast(w, 5) \o <<"a","t","e">> ELSE w
    ELSE IF EndsWith(w, <<"a","t","o","r">>) THEN
        IF _m(w, Len(w) - 5) # 0 THEN DropLast(w, 4) \o <<"a","t","e">> ELSE w
    ELSE w
\* ch == 's'
step2_s(w) ==
    IF EndsWith(w, <<"a","l","i","s","m">>) THEN
        IF _m(w, Len(w) - 6) # 0 THEN DropLast(w, 3) ELSE w
    ELSE IF EndsWith(w, <<"n","e","s","s">>) THEN
        IF EndsWith(w, <<"i","v","e","n","e","s","s">>) THEN
            IF _m(w, Len(w) - 8) # 0 THEN DropLast(w, 4) ELSE w
        ELSE IF EndsWith(w, <<"f","u","l","n","e","s","s">>) THEN
            IF _m(w, Len(w) - 8) # 0 THEN DropLast(w, 4) ELSE w
        ELSE IF EndsWith(w, <<"o","u","s","n","e","s","s">>) THEN
            IF _m(w, Len(w) - 8) # 0 THEN DropLast(w, 4) ELSE w
        ELSE w
    ELSE w
\* ch == 't'
step2_t(w) ==
    IF EndsWith(w, <<"a","l","i","t","i">>) THEN
        IF _m(w, Len(w) - 6) # 0 THEN DropLast(w, 3) ELSE w
    ELSE IF EndsWith(w, <<"i","v","i","t","i">>) THEN
        IF _m(w, Len(w) - 6) # 0 THEN DropLast(w, 5) \o <<"i","v","e">> ELSE w
    ELSE IF EndsWith(w, <<"b","i","l","i","t","i">>) THEN
        IF _m(w, Len(w) - 7) # 0 THEN DropLast(w, 6) \o <<"b","l","e">> ELSE w
    ELSE w
\* the 'g' branch measuring the part before "logi"
step2_g_before_logi(w) ==
    IF EndsWith(w, <<"l","o","g","i">>) THEN
        IF _m(w, Len(w) - 5) # 0 THEN DropLast(w, 1) ELSE w
    ELSE w

\* ch == 'g'
step2_g(w) ==
    IF EndsWith(w, <<"l","o","g","i">>) THEN
        IF _m(w, Len(w) - 4) # 0 THEN DropLast(w, 1) ELSE w
    ELSE w
_step2(w) ==
    IF Len(w) <= 1 THEN w
    ELSE LET ch == At(w, -2)
         IN  IF ch = "a" THEN step2_a(w)
             ELSE IF ch = "c" THEN step2_c(w)
             ELSE IF ch = "e" THEN step2_e(w)
             ELSE IF ch = "l" THEN step2_l(w)
             ELSE IF ch = "o" THEN step2_o(w)
             ELSE IF ch = "s" THEN step2_s(w)
             ELSE IF ch = "t" THEN step2_t(w)
             ELSE IF ch = "g" THEN step2_g(w)
             ELSE w

(***************************************************************************)
(* Stage 3: -ic-, -ful, -ness.  One definition per branch of the dispatch  *)
(* on ch = word[-1].                                                       *)
(***************************************************************************)
\* ch == 'e'
step3_e(w) ==
    IF EndsWith(w, <<"i","c","a","t","e">>) THEN
        IF _m(w, Len(w) - 6) # 0 THEN DropLast(w, 3) ELSE w
    ELSE IF EndsWith(w, <<"a","t","i","v","e">>) THEN
        IF _m(w, Len(w) - 6) # 0 THEN DropLast(w, 5) ELSE w
    ELSE IF EndsWith(w, <<"a","l","i","z","e">>) THEN
        IF _m(w, Len(w) - 6) # 0 THEN DropLast(w, 3) ELSE w
    ELSE w
\* ch == 'i'
step3_i(w) ==
    IF EndsWith(w, <<"i","c","i","t","i">>) THEN
        IF _m(w, Len(w) - 6) # 0 THEN DropLast(w, 3) ELSE w
    ELSE w
\* ch == 'l'
step3_l(w) ==
    IF EndsWith(w, <<"i","c","a","l">>) THEN
        IF _m(w, Len(w) - 5) # 0 THEN DropLast(w, 2) ELSE w
    ELSE IF EndsWith(w, <<"f","u","l">>) THEN
        IF _m(w, Len(w) - 4) # 0 THEN DropLast(w, 3) ELSE w
    ELSE w
\* ch == 's'
step3_s(w) ==
    IF EndsWith(w, <<"n","e","s","s">>) THEN
        IF _m(w, Len(w) - 5) # 0 THEN DropLast(w, 4) ELSE w
    ELSE w
_step3(w) ==
    LET ch == At(w, -1)
    IN  IF ch = "e" THEN step3_e(w)
        ELSE IF ch = "i" THEN step3_i(w)
        ELSE IF ch = "l" THEN step3_l(w)
        ELSE IF ch = "s" THEN step3_s(w)
        ELSE w

(***************************************************************************)
(* Stage 4: -ant, -ence etc. in context <c>vcvc<v>.  One definition per    *)
(* branch of the dispatch on ch = word[-2].                                *)
(***************************************************************************)
\* ch == 'a'
step4_a(w) ==
    IF EndsWith(w, <<"a","l">>) THEN
        IF _m(w, Len(w) - 3) > 1 THEN DropLast(w, 2) ELSE w
    ELSE w
\* ch == 'c'
step4_c(w) ==
    IF EndsWith(w, <<"a","n","c","e">>) THEN
        IF _m(w, Len(w) - 5) > 1 THEN DropLast(w, 4) ELSE w
    ELSE IF EndsWith(w, <<"e","n","c","e">>) THEN
        IF _m(w, Len(w) - 5) > 1 THEN DropLast(w, 4) ELSE w
    ELSE w
\* ch == 'e'
step4_e(w) ==
    IF EndsWith(w, <<"e","r">>) THEN
        IF _m(w, Len(w) - 3) > 1 THEN DropLast(w, 2) ELSE w
    ELSE w
\* ch == 'i'
step4_i(w) ==
    IF EndsWith(w, <<"i","c">>) THEN
        IF _m(w, Len(w) - 3) > 1 THEN DropLast(w, 2) ELSE w
    ELSE w
\* ch == 'l'
step4_l(w) ==
    IF EndsWith(w, <<"a","b","l","e">>) THEN
        IF _m(w, Len(w) - 5) > 1 THEN DropLast(w, 4) ELSE w
    ELSE IF EndsWith(w, <<"i","b","l","e">>) THEN
        IF _m(w, Len(w) - 5) > 1 THEN DropLast(w, 4) ELSE w
    ELSE w
\* ch == 'n'
step4_n(w) ==
    IF EndsWith(w, <<"a","n","t">>) THEN
        IF _m(w, Len(w) - 4) > 1 THEN DropLast(w, 3) ELSE w
    ELSE IF EndsWith(w, <<"e","m","e","n","t">>) THEN
        IF _m(w, Len(w) - 6) > 1 THEN DropLast(w, 5) ELSE w
    ELSE IF EndsWith(w, <<"m","e","n","t">>) THEN
        IF _m(w, Len(w) - 5) > 1 THEN DropLast(w, 4) ELSE w
    ELSE IF EndsWith(w, <<"e","n","t">>) THEN
        IF _m(w, Len(w) - 4) > 1 THEN DropLast(w, 3) ELSE w
    ELSE w
\* the 'o' branch taking -sion and -tion off whole
step4_o_whole_suffix(w) ==
    IF EndsWith(w, <<"s","i","o","n">>) \/ EndsWith(w, <<"t","i","o","n">>) THEN
        IF _m(w, Len(w) - 5) > 1 THEN DropLast(w, 4) ELSE w
    ELSE IF EndsWith(w, <<"o","u">>) THEN
        IF _m(w, Len(w) - 3) > 1 THEN DropLast(w, 2) ELSE w
    ELSE w

\* ch == 'o'
step4_o(w) ==
    IF EndsWith(w, <<"s","i","o","n">>) \/ EndsWith(w, <<"t","i","o","n">>) THEN
        IF _m(w, Len(w) - 4) > 1 THEN DropLast(w, 3) ELSE w
    ELSE IF EndsWith(w, <<"o","u">>) THEN
        IF _m(w, Len(w) - 3) > 1 THEN DropLast(w, 2) ELSE w
    ELSE w
\* ch == 's'
step4_s(w) ==
    IF EndsWith(w, <<"i","s","m">>) THEN
        IF _m(w, Len(w) - 4) > 1 THEN DropLast(w, 3) ELSE w
    ELSE w
\* ch == 't'
step4_t(w) ==
    IF EndsWith(w, <<"a","t","e">>) THEN
        IF _m(w, Len(w) - 4) > 1 THEN DropLast(w, 3) ELSE w
    ELSE IF EndsWith(w, <<"i","t","i">>) THEN
        IF _m(w, Len(w) - 4) > 1 THEN DropLast(w, 3) ELSE w
    ELSE w
\* ch == 'u'
step4_u(w) ==
    IF EndsWith(w, <<"o","u","s">>) THEN
        IF _m(w, Len(w) - 4) > 1 THEN DropLast(w, 3) ELSE w
    ELSE w
\* ch == 'v'
step4_v(w) ==
    IF EndsWith(w, <<"i","v","e">>) THEN
        IF _m(w, Len(w) - 4) > 1 THEN DropLast(w, 3) ELSE w
    ELSE w
\* ch == 'z'
step4_z(w) ==
    IF EndsWith(w, <<"i","z","e">>) THEN
        IF _m(w, Len(w) - 4) > 1 THEN DropLast(w, 3) ELSE w
    ELSE w
_step4(w) ==
    IF Len(w) <= 1 THEN w
    ELSE LET ch == At(w, -2)
         IN  IF ch = "a" THEN step4_a(w)
             ELSE IF ch = "c" THEN step4_c(w)
             ELSE IF ch = "e" THEN step4_e(w)
             ELSE IF ch = "i" THEN step4_i(w)
             ELSE IF ch = "l" THEN step4_l(w)
             ELSE IF ch = "n" THEN step4_n(w)
             ELSE IF ch = "o" THEN step4_o(w)
             ELSE IF ch = "s" THEN step4_s(w)
             ELSE IF ch = "t" THEN step4_t(w)
             ELSE IF ch = "u" THEN step4_u(w)
             ELSE IF ch = "v" THEN step4_v(w)
             ELSE IF ch = "z" THEN step4_z(w)
             ELSE w

(***************************************************************************)
(* Stage 5: a final -e, and -ll to -l.                                     *)
(***************************************************************************)
\* the final -e, kept whenever the measure is 1
step5_e_keep_m1(w) ==
    IF At(w, -1) = "e" THEN
        LET a == _m(w, Len(w) - 1)
        IN  IF a > 1 THEN DropLast(w, 1) ELSE w
    ELSE w

\* the final -e
step5_e(w) ==
    IF At(w, -1) = "e" THEN
        LET a == _m(w, Len(w) - 1)
        IN  IF a > 1 \/ (a = 1 /\ ~_cvc(w, Len(w) - 2)) THEN DropLast(w, 1) ELSE w
    ELSE w

\* -ll to -l
step5_ll(w) ==
    IF EndsWith(w, <<"l","l">>) /\ _m(w, Len(w) - 1) > 1 THEN DropLast(w, 1) ELSE w

_step5(w) == step5_ll(step5_e(w))

(***************************************************************************)
(* The reads a call makes.  A read is <<kind, n, i>>: a call _cons(word, i)*)
(* (kind "cons") or a direct word[i] of a stage or predicate (kind "char") *)
(* on a word of n characters.  Each definition lists the reads of the      *)
(* function it is named after, on the path the function takes; were a read *)
(* to raise, the reads listed after it would not be made.                  *)
(***************************************************************************)
ConsCall(w, i) == <<"cons", Len(w), i>>

CharRead(w, i) == <<"char", Len(w), i>>

\* word[i] raises IndexError: i is outside -n .. n - 1
Raises(reads) == \E a \in reads : a[3] < -a[2] \/ a[3] >= a[2]

\* _cons(word, i) and the calls it makes on itself for a y
RECURSIVE cons_reads(_, _)
cons_reads(w, i) ==
    {ConsCall(w, i)} \cup
        IF At(w, i) = "y" /\ i # 0 THEN cons_reads(w, i - 1) ELSE {}

\* _m(word, j): one _cons(word, i) for each i the scan reaches, 0 to j, and
\* none after the first that raises
m_reads(w, j) ==
    UNION { cons_reads(w, i) : i \in 0 .. (IF j < Len(w) THEN j ELSE Len(w)) }

\* _vowelinstem: the loop stops at the first vowel
vowelinstem_reads(stem) ==
    UNION { cons_reads(stem, i) :
              i \in { k \in 0 .. (Len(stem) - 1) :
                        \A h \in 0 .. (k - 1) : _cons(stem, h) } }

\* the reads of _doublec without its length guard
doublec_reads_unguarded(w) ==
    {CharRead(w, -1), CharRead(w, -2)} \cup
        IF At(w, -1) # At(w, -2) THEN {} ELSE cons_reads(w, Len(w) - 1)

doublec_reads(w) ==
    IF Len(w) < 2 THEN {}
    ELSE {CharRead(w, -1), CharRead(w, -2)} \cup
             IF At(w, -1) # At(w, -2) THEN {} ELSE cons_reads(w, Len(w) - 1)

\* _cvc: "and" and "or" stop at the operand that decides them
cvc_reads(w, i) ==
    IF i = 0 THEN {}
    ELSE IF i = 1 THEN
        cons_reads(w, 0) \cup (IF ~_cons(w, 0) THEN cons_reads(w, 1) ELSE {})
    ELSE cons_reads(w, i) \cup
         (IF ~_cons(w, i) THEN {}
          ELSE cons_reads(w, i - 1) \cup
               (IF _cons(w, i - 1) THEN {}
                ELSE cons_reads(w, i - 2) \cup
                     (IF ~_cons(w, i - 2) THEN {} ELSE {CharRead(w, i)})))

step1ab_plural_reads(w) ==
    {CharRead(w, -1)} \cup
        IF /\ At(w, -1) = "s"
           /\ ~EndsWith(w, <<"s","s","e","s">>)
           /\ ~EndsWith(w, <<"i","e","s">>)
        THEN {CharRead(w, -2)}
        ELSE {}

step1ab_ed_ing_reads(w) ==
    IF EndsWith(w, <<"i","e","d">>) THEN {}
    ELSE IF EndsWith(w, <<"e","e","d">>) THEN m_reads(w, Len(w) - 4)
    ELSE IF EndsWith(w, <<"e","d">>) THEN vowelinstem_reads(DropLast(w, 2))
    ELSE IF EndsWith(w, <<"i","n","g">>) THEN vowelinstem_reads(DropLast(w, 3))
    ELSE {}

step1ab_trimmed_reads(w) ==
    IF EndsWith(w, <<"a","t">>) \/ EndsWith(w, <<"b","l">>) \/ EndsWith(w, <<"i","z">>) THEN {}
    ELSE doublec_reads(w) \cup
         (IF _doublec(w) THEN {CharRead(w, -1)}
          ELSE m_reads(w, Len(w) - 1) \cup
               (IF _m(w, Len(w) - 1) = 1 THEN cvc_reads(w, Len(w) - 1) ELSE {}))

step1ab_reads(w) ==
    LET w1 == step1ab_plural(w)
        r  == step1ab_ed_ing(w1)
    IN  step1ab_plural_reads(w) \cup step1ab_ed_ing_reads(w1) \cup
            (IF r.ed_or_ing_trimmed THEN step1ab_trimmed_reads(r.word) ELSE {})

step1c_reads(w) ==
    {CharRead(w, -1)} \cup
        IF At(w, -1) = "y" /\ Len(w) > 2 THEN cons_reads(w, Len(w) - 2) ELSE {}

(***************************************************************************)
(* Stages 2, 3 and 4 make one call _m(word, len(word) - k) for the suffix  *)
(* they match.  The rules are listed in the order of the source, each with *)
(* the value of ch it is tried under, its suffix and its k.                *)
(***************************************************************************)
step2_measures ==
    <<
       << "a", <<"a","t","i","o","n","a","l">>, 8 >>,
       << "a", <<"t","i","o","n","a","l">>, 7 >>,
       << "c", <<"e","n","c","i">>, 5 >>,
       << "c", <<"a","n","c","i">>, 5 >>,
       << "e", <<"i","z","e","r">>, 5 >>,
       << "l", <<"b","l","i">>, 4 >>,
       << "l", <<"a","l","l","i">>, 5 >>,
       << "l", <<"f","u","l","l","i">>, 6 >>,
       << "l", <<"e","n","t","l","i">>, 6 >>,
       << "l", <<"e","l","i">>, 4 >>,
       << "l", <<"o","u","s","l","i">>, 6 >>,
       << "o", <<"i","z","a","t","i","o","n">>, 8 >>,
       << "o", <<"a","t","i","o","n">>, 6 >>,
       << "o", <<"a","t","o","r">>, 5 >>,
       << "s", <<"a","l","i","s","m">>, 6 >>,
       << "s", <<"i","v","e","n","e","s","s">>, 8 >>,
       << "s", <<"f","u","l","n","e","s","s">>, 8 >>,
       << "s", <<"o","u","s","n","e","s","s">>, 8 >>,
       << "t", <<"a","l","i","t","i">>, 6 >>,
       << "t", <<"i","v","i","t","i">>, 6 >>,
       << "t", <<"b","i","l","i","t","i">>, 7 >>,
       << "g", <<"l","o","g","i">>, 4 >> >>

step3_measures ==
    <<
       << "e", <<"i","c","a","t","e">>, 6 >>,
       << "e", <<"a","t","i","v","e">>, 6 >>,
       << "e", <<"a","l","i","z","e">>, 6 >>,
       << "i", <<"i","c","i","t","i">>, 6 >>,
       << "l", <<"i","c","a","l">>, 5 >>,
       << "l", <<"f","u","l">>, 4 >>,
       << "s", <<"n","e","s","s">>, 5 >> >>

step4_measures ==
    <<
       << "a", <<"a","l">>, 3 >>,
       << "c", <<"a","n","c","e">>, 5 >>,
       << "c", <<"e","n","c","e">>, 5 >>,
       << "e", <<"e","r">>, 3 >>,
       << "i", <<"i","c">>, 3 >>,
       << "l", <<"a","b","l","e">>, 5 >>,
       << "l", <<"i","b","l","e">>, 5 >>,
       << "n", <<"a","n","t">>, 4 >>,
       << "n", <<"e","m","e","n","t">>, 6 >>,
       << "n", <<"m","e","n","t">>, 5 >>,
       << "n", <<"e","n","t">>, 4 >>,
       << "o", <<"s","i","o","n">>, 4 >>,
       << "o", <<"t","i","o","n">>, 4 >>,
       << "o", <<"o","u">>, 3 >>,
       << "s", <<"i","s","m">>, 4 >>,
       << "t", <<"a","t","e">>, 4 >>,
       << "t", <<"i","t","i">>, 4 >>,
       << "u", <<"o","u","s">>, 4 >>,
       << "v", <<"i","v","e">>, 4 >>,
       << "z", <<"i","z","e">>, 4 >> >>

\* the first rule tried under ch whose suffix w ends with, 0 if there is none
MatchedRule(rs, ch, w) ==
    LET hits == { k \in DOMAIN rs : rs[k][1] = ch /\ EndsWith(w, rs[k][2]) }
    IN  IF hits = {} THEN 0
        ELSE CHOOSE k \in hits : \A h \in hits : k <= h

\* the _m call of the matched rule
measure_reads(rs, ch, w) ==
    LET k == MatchedRule(rs, ch, w)
    IN  IF k = 0 THEN {} ELSE m_reads(w, Len(w) - rs[k][3])

\* _step2; the -alli rule, when it applies, runs _step2 on what it leaves
RECURSIVE step2_reads(_)
step2_reads(w) ==
    IF Len(w) <= 1 THEN {}
    ELSE {CharRead(w, -2)} \cup measure_reads(step2_measures, At(w, -2), w) \cup
         (IF /\ At(w, -2) = "l"
             /\ ~EndsWith(w, <<"b","l","i">>)
             /\ EndsWith(w, <<"a","l","l","i">>)
             /\ _m(w, Len(w) - 5) > 0
          THEN step2_reads(DropLast(w, 2))
          ELSE {})

step3_reads(w) ==
    {CharRead(w, -1)} \cup measure_reads(step3_measures, At(w, -1), w)

step4_reads(w) ==
    IF Len(w) <= 1 THEN {}
    ELSE {CharRead(w, -2)} \cup measure_reads(step4_measures, At(w, -2), w)

step5_reads(w) ==
    LET w1 == step5_e(w)
    IN  {CharRead(w, -1)} \cup
        (IF At(w, -1) = "e"
         THEN m_reads(w, Len(w) - 1) \cup
              (IF _m(w, Len(w) - 1) = 1 THEN cvc_reads(w, Len(w) - 2) ELSE {})
         ELSE {}) \cup
        (IF EndsWith(w1, <<"l","l">>) THEN m_reads(w1, Len(w1) - 1) ELSE {})

(***************************************************************************)
(* The tokens stem_word is called with: every stem over Letters of at most *)
(* MaxStemLen characters followed by every ending of Endings, the surface  *)
(* forms of the irregular-form table, and a list of English words.         *)
(***************************************************************************)
Letters == {"a", "y", "t", "l"}

RECURSIVE WordsUpTo(_)
WordsUpTo(n) ==
    IF n = 0 THEN { <<>> }
    ELSE LET shorter == WordsUpTo(n - 1)
         IN  shorter \cup { Append(w, c) : w \in shorter, c \in Letters }

Stems == WordsUpTo(MaxStemLen)

Endings ==
    { \* plurals, -ed, -ing, final -y, -e and -ll
      <<>>, <<"s">>, <<"s","s">>, <<"s","s","e","s">>, <<"i","e","s">>,
      <<"i","e","d">>, <<"e","e","d">>, <<"e","d">>, <<"i","n","g">>, <<"e","d","s">>,
      <<"i","n","g","s">>, <<"e","e","d","s">>, <<"a","t","e","d">>,
      <<"a","t","i","n","g">>, <<"b","l","e","d">>, <<"i","z","i","n","g">>,
      <<"t","t","e","d">>, <<"t","t","i","n","g">>, <<"l","l","e","d">>,
      <<"s","s","i","n","g">>, <<"z","z","e","d">>, <<"w","e","d">>,
      <<"x","i","n","g">>, <<"y","e","d">>, <<"y">>, <<"e","y">>, <<"e">>, <<"e","e">>,
      <<"l","e">>, <<"l","l">>, <<"l","l","e">>, <<"l","l","s">>,
      \* the suffixes of Stage 2, with their -y forms
      <<"a","t","i","o","n","a","l">>, <<"t","i","o","n","a","l">>,
      <<"e","n","c","i">>, <<"a","n","c","i">>, <<"i","z","e","r">>, <<"b","l","i">>,
      <<"a","l","l","i">>, <<"f","u","l","l","i">>, <<"e","n","t","l","i">>,
      <<"e","l","i">>, <<"o","u","s","l","i">>, <<"i","z","a","t","i","o","n">>,
      <<"a","t","i","o","n">>, <<"a","t","o","r">>, <<"a","l","i","s","m">>,
      <<"i","v","e","n","e","s","s">>, <<"f","u","l","n","e","s","s">>,
      <<"o","u","s","n","e","s","s">>, <<"n","e","s","s">>, <<"a","l","i","t","i">>,
      <<"i","v","i","t","i">>, <<"b","i","l","i","t","i">>, <<"l","o","g","i">>,
      <<"e","n","c","y">>, <<"a","n","c","y">>, <<"b","l","y">>, <<"a","l","l","y">>,
      <<"f","u","l","l","y">>, <<"e","n","t","l","y">>, <<"e","l","y">>,
      <<"o","u","s","l","y">>, <<"a","l","i","t","y">>, <<"i","v","i","t","y">>,
      <<"b","i","l","i","t","y">>, <<"l","o","g","y">>,
      <<"t","i","o","n","a","l","l","i">>, <<"a","t","i","o","n","a","l","l","i">>,
      \* the suffixes of Stage 3
      <<"i","c","a","t","e">>, <<"a","t","i","v","e">>, <<"a","l","i","z","e">>,
      <<"i","c","i","t","i">>, <<"i","c","a","l">>, <<"f","u","l">>,
      <<"i","c","i","t","y">>,
      \* the suffixes of Stage 4
      <<"a","l">>, <<"a","n","c","e">>, <<"e","n","c","e">>, <<"e","r">>, <<"i","c">>,
      <<"a","b","l","e">>, <<"i","b","l","e">>, <<"a","n","t">>,
      <<"e","m","e","n","t">>, <<"m","e","n","t">>, <<"e","n","t">>,
      <<"s","i","o","n">>, <<"t","i","o","n">>, <<"i","o","n">>, <<"o","u">>,
      <<"i","s","m">>, <<"a","t","e">>, <<"i","t","i">>, <<"o","u","s">>,
      <<"i","v","e">>, <<"i","z","e">> }

EnglishWords ==
    {
      <<"c","a","r","e","s","s","e","s">>, <<"p","o","n","i","e","s">>,
      <<"s","t","i","e","s">>, <<"t","i","e","s">>, <<"t","i","e">>,
      <<"c","a","r","e","s","s">>, <<"c","a","t","s">>, <<"f","e","e","d">>,
      <<"a","g","r","e","e","d">>, <<"d","i","s","a","b","l","e","d">>,
      <<"m","a","t","t","i","n","g">>, <<"m","a","t","i","n","g">>,
      <<"m","e","e","t","i","n","g">>, <<"m","i","l","l","i","n","g">>,
      <<"m","e","s","s","i","n","g">>, <<"m","e","e","t","i","n","g","s">>,
      <<"h","a","p","p","y">>, <<"e","n","j","o","y">>, <<"s","p","y">>,
      <<"a","d","o","p","t","i","o","n">>, <<"g","e","o","l","o","g","y">>,
      <<"r","u","n","n","i","n","g">>, <<"t","h","e">>,
      <<"h","o","p","p","i","n","g">>, <<"h","o","p","i","n","g">>,
      <<"f","a","l","l","i","n","g">>, <<"c","o","n","t","r","o","l","l">>,
      <<"p","r","o","b","a","t","e">>, <<"r","a","t","e">>, <<"c","e","a","s","e">> }

Tokens ==
    { s \o e : s \in Stems, e \in Endings } \cup DOMAIN pool \cup EnglishWords

(***************************************************************************)
(* stem_word(p), called with the default i and j: word = p.                *)
(* pc is the place in stem_word: "stem_word" before the lookup, then the   *)
(* stage to run next, then "return", or "raise" when a stage raised        *)
(* IndexError.  trace lists the stages that ran, each with the word it     *)
(* returned and the reads it made.                                         *)
(***************************************************************************)
\* word in self.pool
in_pool(w) == w \in DOMAIN pool

\* a lookup that hands the token back instead of its entry
pool_lookup_token(w) == w

\* self.pool[word]
pool_lookup(w) == pool[w]

\* a length guard that lets two-character tokens through
is_short_below_two(w) == Len(w) < 2

\* len(word) <= 2
is_short(w) == Len(w) <= 2

Init ==
    /\ p \in Tokens
    /\ word = p
    /\ pc = "stem_word"
    /\ trace = <<>>

Ran(stage, out, reads) ==
    Append(trace, [stage |-> stage, out |-> out, reads |-> reads])

\* word = self._stepN(word): the stage makes its reads and returns out, or
\* one of the reads raises IndexError and stem_word ends with it
RunStage(stage, reads, out, next) ==
    /\ word' = IF Raises(reads) THEN word ELSE out
    /\ trace' = Ran(stage, word', reads)
    /\ pc' = IF Raises(reads) THEN "raise" ELSE next
    /\ UNCHANGED p

\* if word in self.pool: return self.pool[word]
PoolHit ==
    /\ pc = "stem_word"
    /\ in_pool(word)
    /\ word' = pool_lookup(word)
    /\ pc' = "return"
    /\ UNCHANGED <<p, trace>>

\* if len(word) <= 2: return word
ShortWord ==
    /\ pc = "stem_word"
    /\ ~in_pool(word)
    /\ is_short(word)
    /\ pc' = "return"
    /\ UNCHANGED <<p, word, trace>>

Step1ab ==
    /\ pc = "stem_word"
    /\ ~in_pool(word)
    /\ ~is_short(word)
    /\ RunStage("step1ab", step1ab_reads(word), _step1ab(word), "step1c")

Step1c ==
    /\ pc = "step1c"
    /\ RunStage("step1c", step1c_reads(word), _step1c(word), "step2")

Step2 ==
    /\ pc = "step2"
    /\ RunStage("step2", step2_reads(word), _step2(word), "step3")

Step3 ==
    /\ pc = "step3"
    /\ RunStage("step3", step3_reads(word), _step3(word), "step4")

Step4 ==
    /\ pc = "step4"
    /\ RunStage("step4", step4_reads(word), _step4(word), "step5")

Step5 ==
    /\ pc = "step5"
    /\ RunStage("step5", step5_reads(word), _step5(word), "return")

Next ==
    \/ PoolHit
    \/ ShortWord
    \/ Step1ab
    \/ Step1c
    \/ Step2
    \/ Step3
    \/ Step4
    \/ Step5

Spec == Init /\ [][Next]_vars

(***************************************************************************)
(* The stages run one after the other on a token, with no lookup and no   *)
(* length guard: what the pipeline alone produces.                         *)
(***************************************************************************)
PipelineAlone(w) == _step5(_step4(_step3(_step2(_step1c(_step1ab(w))))))

\* the word the stage named s returned in this call, <<>> if it has not run
OutOf(s) ==
    IF \E k \in DOMAIN trace : trace[k].stage = s
    THEN trace[CHOOSE k \in DOMAIN trace : trace[k].stage = s].out
    ELSE <<>>

Returned == pc = "return"

(***************************************************************************)
(* C1.  A token that is a surface form of the Irregular-Form Table is      *)
(* answered with its mapped stem, and no stage runs on it.                 *)
(***************************************************************************)
IrregularFormTable ==
    (<<"s","k","y">> :> <<"s","k","y">>) @@
    (<<"s","k","i","e","s">> :> <<"s","k","y">>) @@
    (<<"d","y","i","n","g">> :> <<"d","i","e">>) @@
    (<<"l","y","i","n","g">> :> <<"l","i","e">>) @@
    (<<"t","y","i","n","g">> :> <<"t","i","e">>) @@
    (<<"n","e","w","s">> :> <<"n","e","w","s">>) @@
    (<<"i","n","n","i","n","g","s">> :> <<"i","n","n","i","n","g">>) @@
    (<<"i","n","n","i","n","g">> :> <<"i","n","n","i","n","g">>) @@
    (<<"o","u","t","i","n","g","s">> :> <<"o","u","t","i","n","g">>) @@
    (<<"o","u","t","i","n","g">> :> <<"o","u","t","i","n","g">>) @@
    (<<"c","a","n","n","i","n","g","s">> :> <<"c","a","n","n","i","n","g">>) @@
    (<<"c","a","n","n","i","n","g">> :> <<"c","a","n","n","i","n","g">>) @@
    (<<"h","o","w","e">> :> <<"h","o","w","e">>) @@
    (<<"p","r","o","c","e","e","d">> :> <<"p","r","o","c","e","e","d">>) @@
    (<<"e","x","c","e","e","d">> :> <<"e","x","c","e","e","d">>) @@
    (<<"s","u","c","c","e","e","d">> :> <<"s","u","c","c","e","e","d">>)

\* C1: for every surface form w of the table, stem_word(w) is the mapped
\* stem and no pipeline stage has run, whatever the pipeline would give.
C1_ExceptionPrecedence ==
    p \in DOMAIN IrregularFormTable =>
        /\ trace = <<>>
        /\ Returned => word = IrregularFormTable[p]

\* "skies" came back as "sky" although the stages alone make it "ski"
C1_Witness ==
    /\ Returned
    /\ p = <<"s","k","i","e","s">>
    /\ word = <<"s","k","y">>
    /\ PipelineAlone(p) = <<"s","k","i">>

(***************************************************************************)
(* C2.  Tokens of length 0, 1 and 2 come back unchanged; no stage, and so  *)
(* no classifier call (the classifier is called from the stages only),     *)
(* runs on them.                                                           *)
(***************************************************************************)
\* C2: for every token w of length at most 2, the empty one included,
\* stem_word(w) = w and no stage has run.
C2_ShortWordBypass ==
    Len(p) <= 2 =>
        /\ trace = <<>>
        /\ word = p

\* "as" came back as "as" although Stage 1ab alone would drop the s
C2_Witness ==
    /\ Returned
    /\ p = <<"a","s">>
    /\ word = p
    /\ _step1ab(p) = <<"a">>

(***************************************************************************)
(* C3.  The stem is at most one character longer than the token.           *)
(***************************************************************************)
\* C3: for every token w, Len(stem_word(w)) <= Len(w) + 1; the word is within
\* that bound after the lookup and after each of the six stages, and so is
\* the stem that is returned.
C3_LengthBound == Len(word) <= Len(p) + 1

\* a call in which Stage 1ab trimmed -ed or -ing and then appended an e
C3_Witness ==
    /\ Returned
    /\ trace # <<>>
    /\ LET r == step1ab_ed_ing(step1ab_plural(p))
       IN  /\ r.ed_or_ing_trimmed
           /\ OutOf("step1ab") = Append(r.word, "e")
    /\ Len(word) <= Len(p) + 1

(***************************************************************************)
(* C4.  stem_word("ties").                                                 *)
(***************************************************************************)
ties == <<"t","i","e","s">>

\* C4 as stated: stem_word("ties") returns "ti".
C4_TiesIsTi == (Returned /\ p = ties) => word = <<"t","i">>

\* C4 as the code has it: stem_word("ties") returns "tie"; the four-letter
\* case of the -ies rule drops only the s, and no later stage changes "tie".
C4_TiesIsTie ==
    (Returned /\ p = ties) =>
        /\ word = <<"t","i","e">>
        /\ \A k \in DOMAIN trace : trace[k].out = <<"t","i","e">>

\* the call on "ties" ran all six stages and returned
C4_Witness ==
    /\ Returned
    /\ p = ties
    /\ Len(trace) = 6
    /\ word = <<"t","i","e">>

(***************************************************************************)
(* C5.  stem_word("agreed").                                               *)
(***************************************************************************)
agreed == <<"a","g","r","e","e","d">>

\* C5 as stated: stem_word("agreed") returns "agree"; Stage 1ab drops the
\* final d and no later stage changes the result.
C5_AgreedIsAgree ==
    (Returned /\ p = agreed) =>
        /\ OutOf("step1ab") = <<"a","g","r","e","e">>
        /\ word = <<"a","g","r","e","e">>

\* C5 as the code has it: Stage 1ab turns "agreed" into "agree", Stages 1c
\* to 4 leave it, and Stage 5 drops the final e: stem_word returns "agre".
C5_AgreedIsAgre ==
    (Returned /\ p = agreed) =>
        /\ OutOf("step1ab") = <<"a","g","r","e","e">>
        /\ OutOf("step4") = <<"a","g","r","e","e">>
        /\ OutOf("step5") = <<"a","g","r","e">>
        /\ word = <<"a","g","r","e">>

\* the call on "agreed" returned, Stage 5 having been handed "agree"
C5_Witness ==
    /\ Returned
    /\ p = agreed
    /\ OutOf("step4") = <<"a","g","r","e","e">>
    /\ word = OutOf("step5")

(***************************************************************************)
(* C6.  The classifier.                                                    *)
(***************************************************************************)
Positions(w) == 0 .. (Len(w) - 1)

Vowel(w, i) == ~_cons(w, i)

Consonant(w, i) == _cons(w, i)

\* C6 as stated: a, e, i, o, u are Vowel; y is Vowel exactly when i = 0 or
\* the character at i - 1 is Consonant; every other character is Consonant.
C6_YVowelAtZero ==
    \A i \in Positions(word) :
        /\ At(word, i) \in {"a", "e", "i", "o", "u"} => Vowel(word, i)
        /\ At(word, i) = "y" =>
               (Vowel(word, i) <=> (i = 0 \/ Consonant(word, i - 1)))
        /\ At(word, i) \notin {"a", "e", "i", "o", "u", "y"} => Consonant(word, i)

\* C6 as the code has it: a, e, i, o, u are Vowel; y is Consonant at
\* position 0, and at a later position Vowel exactly when the character
\* before it is Consonant; every other character is Consonant.
C6_YConsonantAtZero ==
    \A i \in Positions(word) :
        /\ At(word, i) \in {"a", "e", "i", "o", "u"} => Vowel(word, i)
        /\ At(word, i) = "y" =>
               (Vowel(word, i) <=> (i > 0 /\ Consonant(word, i - 1)))
        /\ At(word, i) \notin {"a", "e", "i", "o", "u", "y"} => Consonant(word, i)

\* a word with a leading y, a y after a consonant and a y after a vowel
C6_Witness ==
    /\ At(word, 0) = "y" /\ Consonant(word, 0)
    /\ \E i \in Positions(word) :
           i > 0 /\ At(word, i) = "y" /\ Consonant(word, i - 1) /\ Vowel(word, i)
    /\ \E i \in Positions(word) :
           i > 0 /\ At(word, i) = "y" /\ Vowel(word, i - 1) /\ Consonant(word, i)

(***************************************************************************)
(* C7.  The measure counts the places where a vowel is followed by a       *)
(* consonant.                                                              *)
(***************************************************************************)
VCBoundaries(w, j) ==
    { k \in 0 .. (j - 1) : Vowel(w, k) /\ Consonant(w, k + 1) }

\* C7: for every word and every j < Len(word), _m(word, j) is the number of
\* k with 0 <= k < j, position k Vowel and position k + 1 Consonant; it is 0
\* when j < 0 and never negative.
C7_MeasureCountsVC ==
    \A j \in -3 .. (Len(word) - 1) :
        /\ _m(word, j) = Cardinality(VCBoundaries(word, j))
        /\ _m(word, j) >= 0
        /\ j < 0 => _m(word, j) = 0

\* a word that opens with a consonant, has measure 2 and a smaller measure
\* on a shorter prefix
C7_Witness ==
    /\ Len(word) >= 5
    /\ Consonant(word, 0)
    /\ _m(word, Len(word) - 1) = 2
    /\ _m(word, Len(word) - 2) = 1

(***************************************************************************)
(* C8.  The measure condition of Stage 2.                                  *)
(***************************************************************************)
Step2Suffixes ==
    {
      <<"a","t","i","o","n","a","l">>, <<"t","i","o","n","a","l">>,
      <<"e","n","c","i">>, <<"a","n","c","i">>, <<"i","z","e","r">>,
      <<"b","l","i">>, <<"a","l","l","i">>, <<"f","u","l","l","i">>,
      <<"e","n","t","l","i">>, <<"e","l","i">>, <<"o","u","s","l","i">>,
      <<"i","z","a","t","i","o","n">>, <<"a","t","i","o","n">>,
      <<"a","t","o","r">>, <<"a","l","i","s","m">>,
      <<"i","v","e","n","e","s","s">>, <<"f","u","l","n","e","s","s">>,
      <<"o","u","s","n","e","s","s">>, <<"a","l","i","t","i">>,
      <<"i","v","i","t","i">>, <<"b","i","l","i","t","i">>, <<"l","o","g","i">> }

logi == <<"l","o","g","i">>

\* the listed suffix Stage 2 matches on w: the longest one w ends with
HasStep2Suffix(w) == \E s \in Step2Suffixes : EndsWith(w, s)

MatchedStep2Suffix(w) ==
    CHOOSE s \in Step2Suffixes :
        /\ EndsWith(w, s)
        /\ \A t \in Step2Suffixes : EndsWith(w, t) => Len(t) <= Len(s)

\* the measure of the part of w before its last n characters
MeasureBefore(w, n) == _m(w, Len(w) - n - 1)

Step2In == OutOf("step1c")

Step2Out == OutOf("step2")

Step2Ran == \E k \in DOMAIN trace : trace[k].stage = "step2"

Step4In == OutOf("step3")

Step4Out == OutOf("step4")

Step4Ran == \E k \in DOMAIN trace : trace[k].stage = "step4"

EndsInSionOrTion(w) == EndsWith(w, <<"s","i","o","n">>) \/ EndsWith(w, <<"t","i","o","n">>)

\* C9 as stated: on a word ending in sion or tion Stage 4 strips the four
\* letters when the measure of the part before them is greater than 1, and
\* leaves the word unchanged otherwise.
C9_StripsSionTion ==
    (Step4Ran /\ EndsInSionOrTion(Step4In)) =>
        Step4Out = IF MeasureBefore(Step4In, 4) > 1
                   THEN DropLast(Step4In, 4)
                   ELSE Step4In

\* C9 as the code has it: on a word ending in sion or tion Stage 4 strips
\* "ion", keeping the s or t, when the measure of the part before "ion" (the
\* s or t included) is greater than 1, and leaves the word unchanged
\* otherwise.
C9_StripsIon ==
    (Step4Ran /\ EndsInSionOrTion(Step4In)) =>
        Step4Out = IF MeasureBefore(Step4In, 3) > 1
                   THEN DropLast(Step4In, 3)
                   ELSE Step4In

\* Stage 4 was handed a word in -sion or -tion whose part before those four
\* letters has a measure above 1, and took "ion" off it
C9_Witness ==
    /\ Step4Ran
    /\ EndsInSionOrTion(Step4In)
    /\ MeasureBefore(Step4In, 4) > 1
    /\ Step4Out = DropLast(Step4In, 3)

(***************************************************************************)
(* C10.  No stage returns the empty word.                                  *)
(***************************************************************************)
\* C10: for every token of length at least 3 that is not in the table, the
\* word each of the six stages returns is non-empty; stem_word returns the
\* empty string for no non-empty token.
C10_StagesNonEmpty ==
    /\ (Len(p) >= 3 /\ p \notin DOMAIN IrregularFormTable) =>
           \A k \in DOMAIN trace : trace[k].out # <<>>
    /\ (Returned /\ p # <<>>) => word # <<>>

\* all six stages ran on a token and left a single character
C10_Witness ==
    /\ Returned
    /\ Len(p) >= 3
    /\ Len(trace) = 6
    /\ Len(trace[1].out) = 1
    /\ Len(word) = 1

(***************************************************************************)
(* C11.  Every read of a call is inside the word it is made on.            *)
(***************************************************************************)
\* a classifier call has 0 <= i < n; a direct word[i] has a character to read
InRange(a) ==
    IF a[1] = "cons" THEN 0 <= a[3] /\ a[3] < a[2]
    ELSE -a[2] <= a[3] /\ a[3] < a[2]

ReadsOf(s) ==
    UNION { trace[k].reads : k \in { h \in DOMAIN trace : trace[h].stage = s } }

\* C11: for every token, every call of _cons the stages make, directly or
\* through _m, _vowelinstem, _doublec and _cvc, has an index i with
\* 0 <= i < length of the word classified, every direct word[-1], word[-2]
\* and word[i] is made on a word that has that character, and no call of
\* stem_word ends with an IndexError.
C11_ReadsInRange ==
    /\ pc # "raise"
    /\ \A k \in DOMAIN trace : \A a \in trace[k].reads : InRange(a)

\* a call that returned after all six stages, in which Stage 1ab went
\* through _doublec to word[-2] and classified the first and the last
\* character of the trimmed word, and Stage 5 went through _cvc to word[i]
C11_Witness ==
    /\ Returned
    /\ Len(trace) = 6
    /\ \E n \in 1 .. Len(p) :
           { <<"char", n, -2>>, <<"cons", n, 0>>, <<"cons", n, n - 1>> }
               \subseteq ReadsOf("step1ab")
    /\ \E a \in ReadsOf("step5") : a[1] = "char" /\ a[3] = a[2] - 2 /\ a[3] >= 1

====
